---- MODULE Spec2Model ----
(***************************************************************************)
(* Model of role_changes.py: the directory-role migration tool.            *)
(*                                                                         *)
(* One invocation of the command line (main) is a run.  Every awaited      *)
(* directory call of a run is one step of the model, so every reachable    *)
(* state is a point at which the process can be interrupted.  A directory  *)
(* call either returns or raises; an exception that the code does not      *)
(* catch ends the run (Python propagates it out of migrate and main).      *)
(***************************************************************************)
EXTENDS Integers, Sequences, FiniteSets, TLC

(* ---------- bounds of the model ---------- *)

\* Largest number of role assignments the directory holds initially.
MaxAssign == 2

\* Largest number of invocations of the command line in one behaviour.
MaxRuns == 3

(* ---------- program constants ---------- *)

FROM_ROLE_NAME == "Too Many Perms"

TO_ROLE_NAME == "Just Right Perms"

(* ---------- the directory (the tenant behind the Graph client) ---------- *)

\* Principals that are users (by_user_id(..).get() can return them with a UPN).
Users == {"u1", "u2"}

\* Principals that are groups or service principals: the user lookup raises.
NonUsers == {"g1"}

Principals == Users \cup NonUsers

\* The role definitions a tenant can have; the first one only resembles FROM.
RoleDefPool ==
    << [id |-> "r0", display_name |-> "Too Many Perms (legacy)"],
       [id |-> "r1", display_name |-> FROM_ROLE_NAME],
       [id |-> "r2", display_name |-> TO_ROLE_NAME] >>

\* Role definition ids an assignment can name.
AssignableRoleIds == {"r1", "r2"}

RECURSIVE SeqsUpTo(_, _)
\* All sequences over S of length at most n.
SeqsUpTo(S, n) ==
    IF n = 0 THEN {<< >>}
    ELSE LET shorter == SeqsUpTo(S, n - 1)
         IN  shorter \cup {Append(s, x) : s \in shorter, x \in S}

\* The user object users.by_user_id(uid).get() returns.
UserObject(uid) ==
    [id |-> uid, display_name |-> uid, user_principal_name |-> uid]

VARIABLES
    definitions,          \* role_definitions.get().value : sequence of definitions
    assignments,          \* role_assignments.get().value : sequence of assignments
    STATE_FILE,           \* << >> when the file does not exist, else << record >>
    pc,                   \* position of the running invocation
    direction,            \* "forward" | "rollback"
    dry_run,              \* args.dry_run
    source_role_def_id,   \* migrate's local
    target_role_def_id,   \* migrate's local
    user_ids,             \* get_users_for_role_definition's local
    members,              \* users resolved so far, then migrate's members
    i,                    \* position of the current loop (for uid / for user)
    affected,             \* migrate's local
    calls,                \* directory calls made by the running invocation
    outcome,              \* how the invocation ended
    runs,                 \* number of invocations so far (the clock of timestamps)
    startFile,            \* STATE_FILE when the invocation started
    startAssignments,     \* assignments when the invocation started
    last                  \* summary of the invocation before the current one

vars == << definitions, assignments, STATE_FILE, pc, direction, dry_run,
           source_role_def_id, target_role_def_id, user_ids, members, i,
           affected, calls, outcome, runs, startFile, startAssignments, last >>

directory == << definitions, assignments >>

locals == << source_role_def_id, target_role_def_id, user_ids, members, i, affected >>

args == << direction, dry_run >>

ghosts == << runs, startFile, startAssignments, last >>

(* ---------- pure helpers of the source ---------- *)

source_role_name(d) == IF d = "forward" THEN FROM_ROLE_NAME ELSE TO_ROLE_NAME

target_role_name(d) == IF d = "forward" THEN TO_ROLE_NAME ELSE FROM_ROLE_NAME

\* The lookup falling back to the first definition instead of raising.
get_role_definition_by_name_M(name, defs) ==
    LET hits == {k \in DOMAIN defs : defs[k].display_name = name}
    IN  IF hits = {} THEN (IF defs = << >> THEN << >> ELSE << defs[1] >>)
        ELSE << defs[CHOOSE k \in hits : \A j \in hits : k <= j] >>

\* The first definition whose display name equals name exactly, as << d >>;
\* << >> stands for the ValueError the function raises.
get_role_definition_by_name(name, defs) ==
    LET hits == {k \in DOMAIN defs : defs[k].display_name = name}
    IN  IF hits = {} THEN << >>
        ELSE << defs[CHOOSE k \in hits : \A j \in hits : k <= j] >>

\* [a for a in assignments if a.role_definition_id == role_def_id]
get_role_assignments_for_definition(role_def_id, asg) ==
    SelectSeq(asg, LAMBDA a : a.role_definition_id = role_def_id)

RECURSIVE PrincipalIds(_)
\* [a.principal_id for a in assignments]
PrincipalIds(asg) ==
    IF asg = << >> THEN << >>
    ELSE << Head(asg).principal_id >> \o PrincipalIds(Tail(asg))

\* The entry migrate appends to affected for a user.
AffectedEntry(user) ==
    [userId |-> user.id, displayName |-> user.display_name,
     userPrincipalName |-> user.user_principal_name]

\* The record written with FROM and TO in the forward order whatever the direction.
StateRecord_NoSwap(d, affected_users, now) ==
    [timestamp |-> now,
     direction |-> d,
     from_role |-> FROM_ROLE_NAME,
     to_role |-> TO_ROLE_NAME,
     affected_users |-> affected_users]

\* The record save_state writes; the timestamp is the number of the run.
StateRecord(d, affected_users, now) ==
    [timestamp |-> now,
     direction |-> d,
     from_role |-> IF d = "forward" THEN FROM_ROLE_NAME ELSE TO_ROLE_NAME,
     to_role |-> IF d = "forward" THEN TO_ROLE_NAME ELSE FROM_ROLE_NAME,
     affected_users |-> affected_users]

\* Effect on the directory of creating the assignment user -> role definition.
AddAssignment(asg, role_def_id, user_id) ==
    IF \E k \in DOMAIN asg :
          asg[k].principal_id = user_id /\ asg[k].role_definition_id = role_def_id
    THEN asg
    ELSE Append(asg, [principal_id |-> user_id, role_definition_id |-> role_def_id])

\* Effect on the directory of deleting the assignment for this user + role definition.
RemoveAssignment(asg, role_def_id, user_id) ==
    SelectSeq(asg, LAMBDA a :
        ~(a.principal_id = user_id /\ a.role_definition_id = role_def_id))

(* ---------- the log of directory calls ---------- *)

Call(op, role, user, ok) == [op |-> op, role |-> role, user |-> user, ok |-> ok]

Exit(o) == pc' = "exited" /\ outcome' = o

Summary ==
    [direction |-> direction, dry_run |-> dry_run, outcome |-> outcome,
     members |-> members, affected |-> affected,
     startAssignments |-> startAssignments]

NoRun ==
    [direction |-> "none", dry_run |-> FALSE, outcome |-> "none",
     members |-> << >>, affected |-> << >>, startAssignments |-> << >>]

(* ---------- initial states ---------- *)

Init ==
    /\ definitions \in
          { SelectSeq(RoleDefPool, LAMBDA d : d.id \in ({"r0"} \cup S)) :
              S \in SUBSET {"r1", "r2"} }
    /\ assignments \in
          SeqsUpTo([principal_id : Principals, role_definition_id : AssignableRoleIds],
                   MaxAssign)
    /\ STATE_FILE = << >>
    /\ pc = "idle"
    /\ direction = "forward"
    /\ dry_run = FALSE
    /\ source_role_def_id = ""
    /\ target_role_def_id = ""
    /\ user_ids = << >>
    /\ members = << >>
    /\ i = 1
    /\ affected = << >>
    /\ calls = << >>
    /\ outcome = "none"
    /\ runs = 0
    /\ startFile = << >>
    /\ startAssignments = << >>
    /\ last = NoRun

(* ---------- main ---------- *)

\* main without the STATE_FILE.exists() test.
main_M(rollback, dry) ==
    /\ pc \in {"idle", "exited"}
    /\ runs < MaxRuns
    /\ runs' = runs + 1
    /\ last' = IF pc = "exited" THEN Summary ELSE last
    /\ startFile' = STATE_FILE
    /\ startAssignments' = assignments
    /\ direction' = IF rollback THEN "rollback" ELSE "forward"
    /\ dry_run' = dry
    /\ source_role_def_id' = ""
    /\ target_role_def_id' = ""
    /\ user_ids' = << >>
    /\ members' = << >>
    /\ i' = 1
    /\ affected' = << >>
    /\ calls' = << >>
    /\ pc' = "source_id" /\ outcome' = "none"
    /\ UNCHANGED << directory, STATE_FILE >>

\* One invocation of the command line: parse the flags, refuse a rollback
\* without a state file, otherwise enter migrate.
main(rollback, dry) ==
    /\ pc \in {"idle", "exited"}
    /\ runs < MaxRuns
    /\ runs' = runs + 1
    /\ last' = IF pc = "exited" THEN Summary ELSE last
    /\ startFile' = STATE_FILE
    /\ startAssignments' = assignments
    /\ direction' = IF rollback THEN "rollback" ELSE "forward"
    /\ dry_run' = dry
    /\ source_role_def_id' = ""
    /\ target_role_def_id' = ""
    /\ user_ids' = << >>
    /\ members' = << >>
    /\ i' = 1
    /\ affected' = << >>
    /\ calls' = << >>
    /\ IF rollback /\ STATE_FILE = << >>
       THEN Exit("no_previous_migration")
       ELSE pc' = "source_id" /\ outcome' = "none"
    /\ UNCHANGED << directory, STATE_FILE >>

(* ---------- migrate: resolving the role definitions ---------- *)

RunningPcs == {"source_id", "target_id", "list", "lookup", "add", "remove"}

\* source_role_def_id = await get_role_definition_id_by_name(source_role_name)
get_source_role_definition_id ==
    /\ pc = "source_id"
    /\ \E ok \in BOOLEAN :
          /\ calls' = Append(calls, Call("role_definitions", "-", "-", ok))
          /\ LET d == get_role_definition_by_name(source_role_name(direction), definitions)
             IN  \/ /\ ~ok
                    /\ Exit("directory_error")
                    /\ UNCHANGED source_role_def_id
                 \/ /\ ok /\ d = << >>
                    /\ Exit("role_not_found")
                    /\ UNCHANGED source_role_def_id
                 \/ /\ ok /\ d # << >>
                    /\ source_role_def_id' = d[1].id
                    /\ pc' = "target_id"
                    /\ UNCHANGED outcome
    /\ UNCHANGED << directory, STATE_FILE, args, target_role_def_id, user_ids,
                    members, i, affected, ghosts >>

\* target_role_def_id = await get_role_definition_id_by_name(target_role_name)
get_target_role_definition_id ==
    /\ pc = "target_id"
    /\ \E ok \in BOOLEAN :
          /\ calls' = Append(calls, Call("role_definitions", "-", "-", ok))
          /\ LET d == get_role_definition_by_name(target_role_name(direction), definitions)
             IN  \/ /\ ~ok
                    /\ Exit("directory_error")
                    /\ UNCHANGED target_role_def_id
                 \/ /\ ok /\ d = << >>
                    /\ Exit("role_not_found")
                    /\ UNCHANGED target_role_def_id
                 \/ /\ ok /\ d # << >>
                    /\ target_role_def_id' = d[1].id
                    /\ pc' = "list"
                    /\ UNCHANGED outcome
    /\ UNCHANGED << directory, STATE_FILE, args, source_role_def_id, user_ids,
                    members, i, affected, ghosts >>

(* ---------- migrate: what follows the resolution of the members ---------- *)

\* save_state deleting the state file once a rollback has used it.
save_state_DropOnRollback(d, affected_users) ==
    STATE_FILE' = IF d = "rollback"
                  THEN << >>
                  ELSE << StateRecord(d, affected_users, runs) >>

\* save_state(direction, affected_users): overwrite the state file.
save_state(d, affected_users) ==
    STATE_FILE' = << StateRecord(d, affected_users, runs) >>

\* migrate without the "if not members: return" test.
migrate_after_members_NoEmptyTest(m) ==
    IF dry_run
    THEN /\ Exit("dry_run_complete")
         /\ UNCHANGED STATE_FILE
    ELSE IF m = << >>
    THEN /\ save_state(direction, << >>)
         /\ Exit("migrated")
    ELSE /\ pc' = "add"
         /\ UNCHANGED << outcome, STATE_FILE >>

\* migrate without the "if dry_run: return" test.
migrate_after_members_NoDryRunTest(m) ==
    IF m = << >>
    THEN /\ Exit("nothing_to_do")
         /\ UNCHANGED STATE_FILE
    ELSE /\ pc' = "add"
         /\ UNCHANGED << outcome, STATE_FILE >>

\* Lines 118-131 of migrate, run once members are known: stop when there is
\* nobody to migrate, stop after the preview of a dry run, else start the loop.
migrate_after_members(m) ==
    IF m = << >>
    THEN /\ Exit("nothing_to_do")
         /\ UNCHANGED STATE_FILE
    ELSE IF dry_run
    THEN /\ Exit("dry_run_complete")
         /\ UNCHANGED STATE_FILE
    ELSE /\ pc' = "add"
         /\ UNCHANGED << outcome, STATE_FILE >>

(* ---------- get_users_for_role_definition ---------- *)

\* assignments = await get_role_assignments_for_definition(role_def_id), and
\* the list of their principal ids.
list_role_assignments ==
    /\ pc = "list"
    /\ \E ok \in BOOLEAN :
          /\ calls' = Append(calls, Call("role_assignments", "-", "-", ok))
          /\ \/ /\ ~ok
                /\ Exit("directory_error")
                /\ UNCHANGED << user_ids, STATE_FILE >>
             \/ /\ ok
                /\ user_ids' = PrincipalIds(
                       get_role_assignments_for_definition(source_role_def_id, assignments))
                /\ IF user_ids' = << >>
                   THEN migrate_after_members(<< >>)
                   ELSE pc' = "lookup" /\ UNCHANGED << outcome, STATE_FILE >>
    /\ i' = 1
    /\ UNCHANGED << directory, args, source_role_def_id, target_role_def_id,
                    members, affected, ghosts >>

\* What users.by_user_id(uid).get() can do for a principal: return a user
\* with a UPN, return an object without a UPN, or raise.
LookupResults(uid) ==
    IF uid \in Users THEN {"user", "raise"} ELSE {"no_upn", "raise"}

\* One iteration of "for uid in user_ids": any exception of the lookup is
\* swallowed and the principal dropped.
lookup_user ==
    /\ pc = "lookup"
    /\ \E r \in LookupResults(user_ids[i]) :
          /\ calls' = Append(calls, Call("get_user", "-", user_ids[i], r # "raise"))
          /\ members' = IF r = "user"
                        THEN Append(members, UserObject(user_ids[i]))
                        ELSE members
          /\ IF i < Len(user_ids)
             THEN /\ i' = i + 1
                  /\ UNCHANGED << pc, outcome, STATE_FILE >>
             ELSE /\ i' = 1
                  /\ migrate_after_members(members')
    /\ UNCHANGED << directory, args, source_role_def_id, target_role_def_id,
                    user_ids, affected, ghosts >>

(* ---------- migrate: the loop over the members ---------- *)

\* The add call with its exception swallowed: the loop goes on to the removal.
add_user_to_role_definition_Swallow ==
    /\ pc = "add"
    /\ \E ok \in BOOLEAN :
          /\ calls' = Append(calls, Call("add", target_role_def_id, members[i].id, ok))
          /\ assignments' = IF ok
                            THEN AddAssignment(assignments, target_role_def_id, members[i].id)
                            ELSE assignments
          /\ pc' = "remove"
          /\ UNCHANGED outcome
    /\ UNCHANGED << definitions, STATE_FILE, args, locals, ghosts >>

\* await add_user_to_role_definition(target_role_def_id, user.id, upn)
add_user_to_role_definition ==
    /\ pc = "add"
    /\ \E ok \in BOOLEAN :
          /\ calls' = Append(calls, Call("add", target_role_def_id, members[i].id, ok))
          /\ \/ /\ ok
                /\ assignments' = AddAssignment(assignments, target_role_def_id, members[i].id)
                /\ pc' = "remove"
                /\ UNCHANGED outcome
             \/ /\ ~ok
                /\ Exit("directory_error")
                /\ UNCHANGED assignments
    /\ UNCHANGED << definitions, STATE_FILE, args, locals, ghosts >>

\* The removal called with the target role definition instead of the source.
remove_user_from_role_definition_WrongRole ==
    /\ pc = "remove"
    /\ \E ok \in BOOLEAN :
          /\ calls' = Append(calls, Call("remove", target_role_def_id, members[i].id, ok))
          /\ \/ /\ ok
                /\ assignments' = RemoveAssignment(assignments, target_role_def_id, members[i].id)
                /\ affected' = Append(affected, AffectedEntry(members[i]))
                /\ IF i < Len(members)
                   THEN /\ i' = i + 1
                        /\ pc' = "add"
                        /\ UNCHANGED << outcome, STATE_FILE >>
                   ELSE /\ i' = i
                        /\ save_state(direction, affected')
                        /\ Exit("migrated")
             \/ /\ ~ok
                /\ Exit("directory_error")
                /\ UNCHANGED << assignments, affected, i, STATE_FILE >>
    /\ UNCHANGED << definitions, args, source_role_def_id, target_role_def_id,
                    user_ids, members, ghosts >>

\* The loop saving the state after every member instead of once at its end.
remove_user_from_role_definition_SaveEach ==
    /\ pc = "remove"
    /\ \E ok \in BOOLEAN :
          /\ calls' = Append(calls, Call("remove", source_role_def_id, members[i].id, ok))
          /\ \/ /\ ok
                /\ assignments' = RemoveAssignment(assignments, source_role_def_id, members[i].id)
                /\ affected' = Append(affected, AffectedEntry(members[i]))
                /\ save_state(direction, affected')
                /\ IF i < Len(members)
                   THEN /\ i' = i + 1
                        /\ pc' = "add"
                        /\ UNCHANGED outcome
                   ELSE /\ i' = i
                        /\ Exit("migrated")
             \/ /\ ~ok
                /\ Exit("directory_error")
                /\ UNCHANGED << assignments, affected, i, STATE_FILE >>
    /\ UNCHANGED << definitions, args, source_role_def_id, target_role_def_id,
                    user_ids, members, ghosts >>

\* await remove_user_from_role_definition(source_role_def_id, user.id, upn),
\* affected.append(..), and after the last member save_state(direction, affected).
remove_user_from_role_definition ==
    /\ pc = "remove"
    /\ \E ok \in BOOLEAN :
          /\ calls' = Append(calls, Call("remove", source_role_def_id, members[i].id, ok))
          /\ \/ /\ ok
                /\ assignments' = RemoveAssignment(assignments, source_role_def_id, members[i].id)
                /\ affected' = Append(affected, AffectedEntry(members[i]))
                /\ IF i < Len(members)
                   THEN /\ i' = i + 1
                        /\ pc' = "add"
                        /\ UNCHANGED << outcome, STATE_FILE >>
                   ELSE /\ i' = i
                        /\ save_state(direction, affected')
                        /\ Exit("migrated")
             \/ /\ ~ok
                /\ Exit("directory_error")
                /\ UNCHANGED << assignments, affected, i, STATE_FILE >>
    /\ UNCHANGED << definitions, args, source_role_def_id, target_role_def_id,
                    user_ids, members, ghosts >>

\* The process is interrupted (KeyboardInterrupt, kill) while a call is awaited.
interrupt ==
    /\ pc \in RunningPcs
    /\ Exit("interrupted")
    /\ UNCHANGED << directory, STATE_FILE, args, locals, calls, ghosts >>

Next ==
    \/ \E rollback \in BOOLEAN, dry \in BOOLEAN : main(rollback, dry)
    \/ get_source_role_definition_id
    \/ get_target_role_definition_id
    \/ list_role_assignments
    \/ lookup_user
    \/ add_user_to_role_definition
    \/ remove_user_from_role_definition
    \/ interrupt

Spec == Init /\ [][Next]_vars

(* ---------- vocabulary of the properties ---------- *)

\* The directory lists an assignment of role definition r to principal p.
Holds(asg, p, r) ==
    \E k \in DOMAIN asg : asg[k].principal_id = p /\ asg[k].role_definition_id = r

\* Ids of the FROM and TO role definitions in the tenant.
FromId == "r1"

ToId == "r2"

SourceId(d) == IF d = "forward" THEN FromId ELSE ToId

TargetId(d) == IF d = "forward" THEN ToId ELSE FromId

\* Principals holding role definition r in the list asg.
Holders(asg, r) == {p \in Principals : Holds(asg, p, r)}

\* An invocation has started and is a live run.
LiveRun == pc # "idle" /\ ~dry_run

\* Positions in the call log of the calls that change the directory.
MutationCalls == {k \in DOMAIN calls : calls[k].op \in {"add", "remove"}}

\* User ids of a list of affected entries.
AffectedIds(aff) == {aff[k].userId : k \in DOMAIN aff}

\* The display name has an exact match among the role definitions.
Defined(name) == \E k \in DOMAIN definitions : definitions[k].display_name = name

(* ---------- C1 ---------- *)

\* C1: in a live run of either direction every call that revokes the source
\* role from a principal is issued right after a call that applied the target
\* role to the same principal and returned, and so in every reachable state of
\* the run no principal that held the source role when the run started holds
\* neither the source nor the target role.
C1_GrantBeforeRevoke ==
    LiveRun =>
        /\ \A k \in DOMAIN calls :
              calls[k].op = "remove" =>
                  /\ k > 1
                  /\ calls[k - 1].op = "add"
                  /\ calls[k - 1].ok
                  /\ calls[k - 1].user = calls[k].user
                  /\ calls[k - 1].role = TargetId(direction)
                  /\ calls[k].role = SourceId(direction)
        /\ \A p \in Holders(startAssignments, SourceId(direction)) :
              \/ Holds(assignments, p, SourceId(direction))
              \/ Holds(assignments, p, TargetId(direction))

\* A principal that held only the source role is between the two calls (it
\* holds both roles) while an earlier principal has already been moved.
C1_Witness ==
    /\ LiveRun
    /\ pc = "remove"
    /\ Holds(assignments, members[i].id, SourceId(direction))
    /\ Holds(assignments, members[i].id, TargetId(direction))
    /\ ~Holds(startAssignments, members[i].id, TargetId(direction))
    /\ \E k \in DOMAIN calls :
          /\ calls[k].op = "remove" /\ calls[k].ok
          /\ Holds(startAssignments, calls[k].user, SourceId(direction))
          /\ ~Holds(assignments, calls[k].user, SourceId(direction))

(* ---------- C2 ---------- *)

\* C2: in a live run, if a call applying the target role to a principal
\* failed, no call revoking the source role from that principal is made in
\* that run and the principal is not in the run's affected list.
C2_FailedApplyNeverRevoked ==
    LiveRun =>
        \A p \in Principals :
            (\E k \in DOMAIN calls :
                calls[k].op = "add" /\ ~calls[k].ok /\ calls[k].user = p)
            => /\ ~\E k \in DOMAIN calls : calls[k].op = "remove" /\ calls[k].user = p
               /\ p \notin AffectedIds(affected)

(* ---------- C3 ---------- *)

\* C3: when a live run in which an apply or revoke call failed has ended,
\* every member of the plan has been processed and the run has persisted a
\* record listing exactly the principals whose apply call succeeded.
C3_FailureDoesNotAbortRun ==
    (/\ LiveRun
     /\ pc = "exited"
     /\ \E k \in MutationCalls : ~calls[k].ok)
    => /\ \A j \in DOMAIN members :
             \E k \in DOMAIN calls : calls[k].op = "add" /\ calls[k].user = members[j].id
       /\ STATE_FILE # << >>
       /\ STATE_FILE[1].timestamp = runs
       /\ AffectedIds(STATE_FILE[1].affected_users) =
             {calls[k].user : k \in {n \in DOMAIN calls : calls[n].op = "add" /\ calls[n].ok}}

(* ---------- C4 ---------- *)

\* C4: in a dry run of either direction, whatever the size of the plan, no
\* call that applies or revokes a role is made and the directory is as it
\* was when the run started.
C4_DryRunMakesNoMutationCall ==
    (pc # "idle" /\ dry_run) =>
        /\ MutationCalls = {}
        /\ assignments = startAssignments
        /\ pc \notin {"add", "remove"}

\* A dry run has rendered a plan of two members and ended.
C4_Witness ==
    /\ pc = "exited"
    /\ dry_run
    /\ outcome = "dry_run_complete"
    /\ Len(members) >= 2

(* ---------- C5 ---------- *)

\* C5: a rollback invocation that finds no state file ends at once, with or
\* without dry-run: it makes no directory call of any kind and writes no
\* state file.
C5_RollbackWithoutStateStops ==
    (pc # "idle" /\ direction = "rollback" /\ startFile = << >>) =>
        /\ pc = "exited"
        /\ outcome = "no_previous_migration"
        /\ calls = << >>
        /\ STATE_FILE = << >>
        /\ assignments = startAssignments

\* A rollback was refused although both roles are defined and a user holds TO.
C5_Witness ==
    /\ pc = "exited"
    /\ direction = "rollback"
    /\ outcome = "no_previous_migration"
    /\ Defined(FROM_ROLE_NAME) /\ Defined(TO_ROLE_NAME)
    /\ \E u \in Users : Holds(assignments, u, ToId)

(* ---------- C6 ---------- *)

\* The invocation before the current one was a forward live run that ran to
\* its end and persisted its record.
LastWasCompletedForward ==
    last.direction = "forward" /\ ~last.dry_run /\ last.outcome = "migrated"

\* C6: when a rollback live run that directly follows a completed forward
\* live run has ended normally, every principal the forward run recorded as
\* affected holds the FROM role and does not hold the TO role.
C6_RoundTripRestores ==
    (/\ LiveRun
     /\ pc = "exited"
     /\ direction = "rollback"
     /\ outcome \in {"migrated", "nothing_to_do"}
     /\ LastWasCompletedForward)
    => \A p \in AffectedIds(last.affected) :
          Holds(assignments, p, FromId) /\ ~Holds(assignments, p, ToId)

(* ---------- C7 ---------- *)

\* C7: every call of a rollback live run that applies or revokes a role is
\* made for a principal listed in the record that was persisted when the
\* rollback started.
C7_RollbackOnlyTouchesRecorded ==
    (LiveRun /\ direction = "rollback") =>
        \A k \in MutationCalls :
            /\ startFile # << >>
            /\ calls[k].user \in AffectedIds(startFile[1].affected_users)

(* ---------- C8 ---------- *)

\* C8: a live run that starts when no principal holds the source role never
\* has a member in its plan, makes no apply or revoke call, never ends as a
\* migration and leaves the state file exactly as it found it (absent if it
\* was absent); without a failing directory call or an interruption it ends
\* with "nothing to do".
C8_NoHoldersNoWrite ==
    (LiveRun /\ Holders(startAssignments, SourceId(direction)) = {}) =>
        /\ members = << >>
        /\ MutationCalls = {}
        /\ STATE_FILE = startFile
        /\ assignments = startAssignments
        /\ pc \notin {"lookup", "add", "remove"}
        /\ pc = "exited" =>
              outcome \in {"nothing_to_do", "no_previous_migration", "role_not_found",
                           "directory_error", "interrupted"}
        /\ (pc = "exited" /\ \E k \in DOMAIN calls :
                                calls[k].op = "role_assignments" /\ calls[k].ok)
              => outcome = "nothing_to_do"

\* A live run found nobody holding the source role and ended with "nothing to
\* do" while a record of an earlier run exists.
C8_Witness ==
    /\ LiveRun
    /\ pc = "exited"
    /\ outcome = "nothing_to_do"
    /\ Holders(startAssignments, SourceId(direction)) = {}
    /\ startFile # << >>
    /\ STATE_FILE = startFile

(* ---------- C9 ---------- *)

\* C9: when the source or the target role name has no exact display-name
\* match among the role definitions, the run never lists the assignments,
\* makes no apply or revoke call, writes no state file and never ends as a
\* migration, a preview or "nothing to do"; this also holds when only the
\* target is missing and the source has been resolved.
C9_MissingRoleAborts ==
    (/\ pc # "idle"
     /\ \/ ~Defined(source_role_name(direction))
        \/ ~Defined(target_role_name(direction)))
    => /\ pc \notin {"list", "lookup", "add", "remove"}
       /\ \A k \in DOMAIN calls : calls[k].op = "role_definitions"
       /\ STATE_FILE = startFile
       /\ assignments = startAssignments
       /\ pc = "exited" =>
             outcome \in {"role_not_found", "no_previous_migration",
                          "directory_error", "interrupted"}

\* A live run resolved its source role, found no target role and stopped,
\* although a user holds the source role.
C9_Witness ==
    /\ LiveRun
    /\ pc = "exited"
    /\ outcome = "role_not_found"
    /\ source_role_def_id # ""
    /\ ~Defined(target_role_name(direction))
    /\ \E u \in Users : Holds(assignments, u, SourceId(direction))

(* ---------- C10 ---------- *)

\* The invocation before the current one was a forward live run that ran to
\* its end and moved every user that held the FROM role when it started.
LastForwardSucceededForAll ==
    /\ LastWasCompletedForward
    /\ (Holders(last.startAssignments, FromId) \cap Users) \subseteq AffectedIds(last.affected)

CountCalls(op, ok) ==
    Cardinality({k \in DOMAIN calls : calls[k].op = op /\ calls[k].ok = ok})

\* The running invocation is a live run that has reached save_state.
Persisted ==
    LiveRun /\ pc = "exited" /\ outcome = "migrated"

\* C11: when a live run has persisted its record, the record lists at most as
\* many affected principals as the plan has members, and the difference is
\* the number of members whose apply call failed.
C11_AffectedCount ==
    Persisted =>
        /\ STATE_FILE # << >>
        /\ STATE_FILE[1].timestamp = runs
        /\ Len(STATE_FILE[1].affected_users) <= Len(members)
        /\ Len(members) - Len(STATE_FILE[1].affected_users) = CountCalls("add", FALSE)

\* A live run with a plan of two members has persisted its record.
C11_Witness ==
    /\ Persisted
    /\ Len(members) >= 2
    /\ STATE_FILE # << >>
    /\ STATE_FILE[1].timestamp = runs

(* ---------- C12 ---------- *)

RECURSIVE CallUsers(_, _)
\* The users of the calls of a log with this operation, in the order of the calls.
CallUsers(log, op) ==
    IF log = << >> THEN << >>
    ELSE (IF Head(log).op = op THEN << Head(log).user >> ELSE << >>)
         \o CallUsers(Tail(log), op)

RECURSIVE UserIdsOf(_)
\* The ids of a list of user objects, in order.
UserIdsOf(us) ==
    IF us = << >> THEN << >> ELSE << Head(us).id >> \o UserIdsOf(Tail(us))

\* The invocation before the current one was a dry run of the same direction
\* that rendered its plan (it left the directory as it was).
LastWasDryRunOfSameDirection ==
    /\ last.dry_run
    /\ last.direction = direction
    /\ last.outcome \in {"dry_run_complete", "nothing_to_do"}

\* C12: when a live run that directly follows a dry run of the same direction
\* has resolved its plan, the plan is the list the dry run rendered, in the
\* same order, and the apply calls of a completed live run are made for
\* exactly that list.
C12_DryRunForecastsLiveRun ==
    (/\ LiveRun
     /\ LastWasDryRunOfSameDirection
     /\ \/ pc \in {"add", "remove"}
        \/ pc = "exited" /\ outcome \in {"migrated", "nothing_to_do"})
    => /\ UserIdsOf(members) = UserIdsOf(last.members)
       /\ outcome = "migrated" => CallUsers(calls, "add") = UserIdsOf(last.members)

(* ---------- C13 ---------- *)

\* Principals whose assignments of FROM or TO differ from those at the start
\* of the running invocation.
ChangedPrincipals ==
    {p \in Principals :
        \E r \in {FromId, ToId} : Holds(assignments, p, r) # Holds(startAssignments, p, r)}

\* C13: when a live run has ended, normally or by a failing directory call,
\* every principal whose roles the run changed is listed in a record that
\* this run persisted.
C13_ErrorStillPersists ==
    (LiveRun /\ pc = "exited" /\ outcome \in {"migrated", "directory_error"}) =>
        \A p \in ChangedPrincipals :
            /\ STATE_FILE # << >>
            /\ STATE_FILE[1].timestamp = runs
            /\ p \in AffectedIds(STATE_FILE[1].affected_users)

(* ---------- C14 ---------- *)

\* C14: when a live run has ended in which the apply call for a principal
\* returned and the revoke call for it failed, that principal is listed in a
\* record that this run persisted.
C14_RevokeFailureStillAffected ==
    (LiveRun /\ pc = "exited") =>
        \A k \in DOMAIN calls :
            (calls[k].op = "remove" /\ ~calls[k].ok /\ k > 1
             /\ calls[k - 1].op = "add" /\ calls[k - 1].ok
             /\ calls[k - 1].user = calls[k].user)
            => /\ STATE_FILE # << >>
               /\ STATE_FILE[1].timestamp = runs
               /\ calls[k].user \in AffectedIds(STATE_FILE[1].affected_users)

(* ---------- C15 ---------- *)

\* C15: as long as a live run has not finished its loop over the members,
\* and when it has ended in any way other than by finishing that loop
\* (interrupted or failed), the state file is the one the run found.
C15_InterruptedRunWritesNothing ==
    (LiveRun /\ ~Persisted) => STATE_FILE = startFile

\* A live run was interrupted after it had given the target role to a user;
\* the state file is the one it found.
C15_Witness ==
    /\ LiveRun
    /\ pc = "exited"
    /\ outcome = "interrupted"
    /\ \E u \in Users :
          /\ Holds(assignments, u, TargetId(direction))
          /\ ~Holds(startAssignments, u, TargetId(direction))
    /\ STATE_FILE = startFile

(* ---------- C16 ---------- *)

\* Positions in the call log of the user lookups that raised for a principal
\* that is a user: the principal exists, so the failure is a transient one
\* (network, authentication).
TransientLookupFailures ==
    {k \in DOMAIN calls :
        calls[k].op = "get_user" /\ ~calls[k].ok /\ calls[k].user \in Users}

\* Positions in the call log of the user lookups that failed for a principal
\* that is not a user (a permanent failure).
PermanentLookupFailures ==
    {k \in DOMAIN calls :
        calls[k].op = "get_user" /\ ~calls[k].ok /\ calls[k].user \in NonUsers}

\* C16: a user lookup that fails permanently only drops that principal from
\* the plan, while a user lookup that fails transiently is the last call of
\* the run and the run ends with an error.
C16_TransientLookupFailsRun ==
    pc # "idle" =>
        /\ \A k \in PermanentLookupFailures :
              calls[k].user \notin {members[j].id : j \in DOMAIN members}
        /\ \A k \in TransientLookupFailures :
              /\ k = Len(calls)
              /\ pc = "exited"
              /\ outcome = "directory_error"

(* ---------- C17 ---------- *)

\* C17: in a live run at most one apply call and at most one revoke call is
\* made for any principal, every member of a completed run has had its apply
\* call, and no principal is twice in the affected list or in the record the
\* run persists.
C17_EachPrincipalOnce ==
    LiveRun =>
        /\ \A k, n \in DOMAIN calls :
              (/\ calls[k].op \in {"add", "remove"}
               /\ calls[k].op = calls[n].op
               /\ calls[k].user = calls[n].user) => k = n
        /\ \A k, n \in DOMAIN affected :
              affected[k].userId = affected[n].userId => k = n
        /\ Persisted =>
              /\ \A j \in DOMAIN members :
                    \E k \in DOMAIN calls :
                        calls[k].op = "add" /\ calls[k].user = members[j].id
              /\ \A k, n \in DOMAIN STATE_FILE[1].affected_users :
                    STATE_FILE[1].affected_users[k].userId =
                        STATE_FILE[1].affected_users[n].userId => k = n

(* ---------- C18 ---------- *)

\* Display name of the role definition with this id.
NameOfId(id) ==
    LET k == CHOOSE n \in DOMAIN RoleDefPool : RoleDefPool[n].id = id
    IN  RoleDefPool[k].display_name

\* C18: the record a live run has persisted carries the direction of the
\* run, from = FROM and to = TO for a forward run, from = TO and to = FROM
\* for a rollback run, and its from / to are the display names of the role
\* definitions the run's revoke / apply calls were made for.
C18_RecordCarriesDirection ==
    Persisted =>
        /\ STATE_FILE # << >>
        /\ STATE_FILE[1].timestamp = runs
        /\ STATE_FILE[1].direction = direction
        /\ direction = "forward" =>
              /\ STATE_FILE[1].from_role = FROM_ROLE_NAME
              /\ STATE_FILE[1].to_role = TO_ROLE_NAME
        /\ direction = "rollback" =>
              /\ STATE_FILE[1].from_role = TO_ROLE_NAME
              /\ STATE_FILE[1].to_role = FROM_ROLE_NAME
        /\ \A k \in DOMAIN calls :
              /\ calls[k].op = "remove" => NameOfId(calls[k].role) = STATE_FILE[1].from_role
              /\ calls[k].op = "add" => NameOfId(calls[k].role) = STATE_FILE[1].to_role

\* A rollback live run has persisted its record.
C18_Witness ==
    /\ Persisted
    /\ direction = "rollback"
    /\ STATE_FILE # << >>
    /\ STATE_FILE[1].direction = "rollback"
    /\ STATE_FILE[1].timestamp = runs

(* ---------- C19 ---------- *)

\* C19: a dry run of either direction leaves the state file as it found it
\* in every state, and once it has rendered its plan it has ended: it never
\* enters the loop over the members and never ends as a migration.
C19_DryRunWritesNothing ==
    (pc # "idle" /\ dry_run) =>
        /\ STATE_FILE = startFile
        /\ affected = << >>
        /\ members # << >> /\ pc # "lookup" =>
              pc = "exited" /\ outcome \in {"dry_run_complete", "interrupted"}
        /\ pc = "exited" => outcome # "migrated"

\* A rollback dry run has rendered a plan and ended; the record of the
\* earlier live run is still the state file.
C19_Witness ==
    /\ pc = "exited"
    /\ dry_run
    /\ direction = "rollback"
    /\ outcome = "dry_run_complete"
    /\ startFile # << >>
    /\ STATE_FILE = startFile

(* ---------- C20 ---------- *)

\* C20: no step removes the state file once it exists, and a rollback
\* invocation that starts after a live run has persisted a record is never
\* refused for lack of a previous migration, also when that live run was
\* itself a rollback.
C20_RecordIsNeverRemoved ==
    /\ [][STATE_FILE # << >> => STATE_FILE' # << >>]_vars
    /\ [](((pc # "idle" /\ direction = "rollback"
              /\ (startFile # << >> \/ (last.outcome = "migrated" /\ ~last.dry_run)))
           => outcome # "no_previous_migration"))

\* A rollback requested directly after a completed rollback has passed the
\* test for a previous migration.
C20_Witness ==
    /\ direction = "rollback"
    /\ pc \in RunningPcs
    /\ last.direction = "rollback"
    /\ ~last.dry_run
    /\ last.outcome = "migrated"
    /\ STATE_FILE # << >>
    /\ STATE_FILE[1].direction = "rollback"

====
